---- MODULE Spec2Model ----
(***************************************************************************)
(* sysinfo_influxdb (src/main.go): the sampling loop of main, the gather   *)
(* goroutines and DiffFromLast with its last_series cache.                 *)
(*                                                                         *)
(* Values of type interface{} are records [t |-> <Go type>, v |-> value].  *)
(* Go's uint64 and int are 64 bits wide and float64 has a 53 bit           *)
(* significand; TLC's integers have 32 bits, so both widths are scaled     *)
(* down (IntBits, MantBits) and the arithmetic is done as the code does    *)
(* it: subtract in the integer type, convert to float64, multiply by       *)
(* consistencyFactor, convert back.                                        *)
(***************************************************************************)
EXTENDS Integers, Sequences, FiniteSets, TLC

VARIABLES
    daemonFlag,             \* -D
    fqdnFlag,               \* -f
    databaseFlag,           \* -d ("" = no client)
    verboseFlag,            \* -v
    collectFlag,            \* -c, already split at ","
    daemonIntervalFlag,     \* -i, seconds
    daemonConsistencyFlag,  \* -C, seconds
    consistencyFactor,      \* <<numerator, denominator>> of the float64
    collectList,            \* main: the GatherFunc list
    pc,                     \* main: where it stands
    first,                  \* main: first
    i,                      \* main: results still awaited in this lap
    data,                   \* main: data
    ch,                     \* the channel's buffer
    last_series,            \* the cache of DiffFromLast
    task,                   \* the goroutines of the current lap: where each
                            \* stands, how its gather function ended, the
                            \* *Series it holds or sent, whether it has sent
    lap,                    \* number of laps started
    emitted,                \* what this lap handed to the display and to send
    nEmitted,               \* number of batches handed over so far
    slept,                  \* number of time.Sleep calls so far
    sinkErr,                \* whether this lap's send returned an error
    call,                   \* the last DiffFromLast call: argument, cache entry
                            \* on entry, result
    normalized              \* history: <<lap, name, number of rows>> of every
                            \* table DiffFromLast was called on in the laps

vars == <<daemonFlag, fqdnFlag, databaseFlag, verboseFlag, collectFlag, daemonIntervalFlag,
          daemonConsistencyFlag, consistencyFactor, collectList, pc, first, i,
          data, ch, last_series, task, lap, emitted, nEmitted, slept, sinkErr,
          call, normalized>>

(***************************************************************************)
(* Bounds.                                                                 *)
(***************************************************************************)
IntBits == 16     \* width standing for the 64 bits of uint64 and int
MantBits == 13    \* significand standing for the 53 bits of float64
MaxRows == 2      \* rows a sampled table has at most
MaxCols == 2      \* cells a row given to DiffFromLast alone has at most
MaxLaps == 2      \* laps the model follows
MaxOpts == 2      \* options of -c when every selection is tried

RECURSIVE Pow2(_)
Pow2(n) == IF n = 0 THEN 1 ELSE 2 * Pow2(n - 1)

\* a *Series: nil, or a serie (Serie below)
NIL == [nil |-> TRUE, Name |-> "", Columns |-> <<>>, Points |-> <<>>]

Abs(x) == IF x < 0 THEN -x ELSE x

(***************************************************************************)
(* The integer types of the type switch in DiffFromLast.                   *)
(***************************************************************************)
IntTypes == {"int", "uint64"}
IsSigned(t) == t = "int"
Modulus == Pow2(IntBits)
SignBit == Pow2(IntBits - 1)
MinOf(t) == IF IsSigned(t) THEN -SignBit ELSE 0
MaxOf(t) == IF IsSigned(t) THEN SignBit - 1 ELSE Modulus - 1

\* x reduced into the range of t (two's complement wrap-around)
Wrap(t, x) ==
    LET m == x % Modulus
    IN  IF IsSigned(t) /\ m >= SignBit THEN m - Modulus ELSE m

\* a - b in type t
Sub(t, a, b) == Wrap(t, a - b)

\* number of bits of n >= 0
RECURSIVE BitLen(_)
BitLen(n) == IF n = 0 THEN 0 ELSE 1 + BitLen(n \div 2)

\* the integer x as a float64: rounded to MantBits significant bits, ties to
\* even
MantLimit == Pow2(MantBits)

RoundMant(x) ==
    IF Abs(x) < MantLimit THEN x
    ELSE LET a == Abs(x)
             ulp == Pow2(BitLen(a) - MantBits)
             q == a \div ulp
             r == a % ulp
             up == (2 * r > ulp) \/ (2 * r = ulp /\ q % 2 = 1)
             m == (IF up THEN q + 1 ELSE q) * ulp
         IN  IF x < 0 THEN -m ELSE m

\* float64(d) * consistencyFactor, then the conversion's truncation toward
\* zero. f is <<m, 2^e>>: the product d * m is rounded to the significand,
\* and the division by the power of two is exact in float64.
MulFactor(d, f) ==
    LET p == RoundMant(RoundMant(d) * f[1])
        q == Abs(p) \div f[2]
    IN  IF p < 0 THEN -q ELSE q

\* the conversion of a float64 with integral value x to type t: exact when t
\* can represent x, otherwise implementation-dependent; conv is what the
\* conversion instruction does then
FloatToInt(t, x, conv) ==
    IF x >= MinOf(t) /\ x <= MaxOf(t) THEN x
    ELSE CASE conv = "wrap" -> Wrap(t, x)
           [] conv = "saturate" -> IF x < MinOf(t) THEN MinOf(t) ELSE MaxOf(t)
           [] OTHER -> IF IsSigned(t) THEN MinOf(t) ELSE SignBit

FloatConvs == {"wrap", "saturate", "indefinite"}

\* one arm of the type switch: t(float64(new - tmp) * consistencyFactor)
DiffValue(t, new, tmp, f, conv) ==
    FloatToInt(t, MulFactor(Sub(t, new, tmp), f), conv)

\* the type switch on serie.Points[i][j]
Switch(cell, tmp, f, conv) ==
    IF cell.t \in IntTypes
    THEN [t |-> cell.t, v |-> DiffValue(cell.t, cell.v, tmp.v, f, conv)]
    ELSE cell

(***************************************************************************)
(* DiffFromLast.  The loops over i and j are recursions that carry the     *)
(* cache entry, the points of serie (changed in place) and notComplete.    *)
(***************************************************************************)
\* DiffCells with notComplete = true left out of the new-cell branch
RECURSIVE DiffCellsNoFlag(_, _, _, _, _, _)
DiffCellsNoFlag(lastRow, row, j, notComplete, f, conv) ==
    IF j > Len(row) THEN [last |-> lastRow, row |-> row, nc |-> notComplete]
    ELSE LET new == Len(lastRow) < j
             tmp == IF new THEN row[j] ELSE lastRow[j]
             lr == IF new THEN Append(lastRow, row[j])
                   ELSE [lastRow EXCEPT ![j] = row[j]]
         IN  DiffCellsNoFlag(lr, [row EXCEPT ![j] = Switch(row[j], tmp, f, conv)],
                             j + 1, notComplete, f, conv)

\* DiffCells with the type switch skipped for a cell that has no previous value
RECURSIVE DiffCellsRaw(_, _, _, _, _, _)
DiffCellsRaw(lastRow, row, j, notComplete, f, conv) ==
    IF j > Len(row) THEN [last |-> lastRow, row |-> row, nc |-> notComplete]
    ELSE LET new == Len(lastRow) < j
             tmp == IF new THEN row[j] ELSE lastRow[j]
             lr == IF new THEN Append(lastRow, row[j])
                   ELSE [lastRow EXCEPT ![j] = row[j]]
             out == IF new THEN row[j] ELSE Switch(row[j], tmp, f, conv)
         IN  DiffCellsRaw(lr, [row EXCEPT ![j] = out],
                          j + 1, notComplete \/ new, f, conv)

\* DiffCells with a cell that is no integer taken from the cache
RECURSIVE DiffCellsIdFromCache(_, _, _, _, _, _)
DiffCellsIdFromCache(lastRow, row, j, notComplete, f, conv) ==
    IF j > Len(row) THEN [last |-> lastRow, row |-> row, nc |-> notComplete]
    ELSE LET new == Len(lastRow) < j
             tmp == IF new THEN row[j] ELSE lastRow[j]
             lr == IF new THEN Append(lastRow, row[j])
                   ELSE [lastRow EXCEPT ![j] = row[j]]
             out == IF row[j].t \in IntTypes THEN Switch(row[j], tmp, f, conv)
                    ELSE tmp
         IN  DiffCellsIdFromCache(lr, [row EXCEPT ![j] = out],
                                  j + 1, notComplete \/ new, f, conv)

\* DiffCells with the cache assigned after the type switch
RECURSIVE DiffCellsStoreDelta(_, _, _, _, _, _)
DiffCellsStoreDelta(lastRow, row, j, notComplete, f, conv) ==
    IF j > Len(row) THEN [last |-> lastRow, row |-> row, nc |-> notComplete]
    ELSE LET new == Len(lastRow) < j
             tmp == IF new THEN row[j] ELSE lastRow[j]
             out == Switch(row[j], tmp, f, conv)
             lr == IF new THEN Append(lastRow, out)
                   ELSE [lastRow EXCEPT ![j] = out]
         IN  DiffCellsStoreDelta(lr, [row EXCEPT ![j] = out],
                                 j + 1, notComplete \/ new, f, conv)

RECURSIVE DiffCells(_, _, _, _, _, _)
DiffCells(lastRow, row, j, notComplete, f, conv) ==
    IF j > Len(row) THEN [last |-> lastRow, row |-> row, nc |-> notComplete]
    ELSE LET new == Len(lastRow) < j
             tmp == IF new THEN row[j] ELSE lastRow[j]
             lr == IF new THEN Append(lastRow, row[j])
                   ELSE [lastRow EXCEPT ![j] = row[j]]
         IN  DiffCells(lr, [row EXCEPT ![j] = Switch(row[j], tmp, f, conv)],
                       j + 1, notComplete \/ new, f, conv)

RECURSIVE DiffRows(_, _, _, _, _, _)
DiffRows(lastRows, points, k, notComplete, f, conv) ==
    IF k > Len(points)
    THEN [last |-> lastRows, points |-> points, nc |-> notComplete]
    ELSE LET lrs == IF Len(lastRows) < k THEN Append(lastRows, <<>>)
                    ELSE lastRows
             r == DiffCells(lrs[k], points[k], 1, notComplete, f, conv)
         IN  DiffRows([lrs EXCEPT ![k] = r.last],
                      [points EXCEPT ![k] = r.row], k + 1, r.nc, f, conv)

\* the cache entry of name, created empty when the map has none
Entry(last, name) == IF name \in DOMAIN last THEN last[name] ELSE <<>>

\* DiffFromLast with the cache entry cut to the rows of the table
DiffFromLastCut(serie, last, f, conv) ==
    LET r == DiffRows(Entry(last, serie.Name), serie.Points, 1, FALSE, f, conv)
        s == [serie EXCEPT !.Points = r.points]
    IN  [ret |-> IF r.nc THEN NIL ELSE s,
         serie |-> s,
         last |-> (serie.Name :> SubSeq(r.last, 1, Len(serie.Points))) @@ last]

\* ret: what DiffFromLast returns (NIL or the serie); serie: the serie it was
\* given, as the call leaves it; last: last_series after the call
DiffFromLast(serie, last, f, conv) ==
    LET r == DiffRows(Entry(last, serie.Name), serie.Points, 1, FALSE, f, conv)
        s == [serie EXCEPT !.Points = r.points]
    IN  [ret |-> IF r.nc THEN NIL ELSE s,
         serie |-> s,
         last |-> (serie.Name :> r.last) @@ last]

(***************************************************************************)
(* Startup: lines 124-126.                                                 *)
(***************************************************************************)
\* A float64 is <<m, 2^e>>, standing for m / 2^e, with m of at most MantBits
\* bits.
\* the least e for which a * 2^e / b has MantBits bits before the point
RECURSIVE Shift(_, _, _)
Shift(a, b, e) ==
    IF (a * Pow2(e)) \div b >= Pow2(MantBits - 1) THEN e ELSE Shift(a, b, e + 1)

RECURSIVE Reduce(_, _)
Reduce(m, e) ==
    IF e > 0 /\ m % 2 = 0 THEN Reduce(m \div 2, e - 1) ELSE <<m, Pow2(e)>>

\* a / b in float64, a and b > 0: the quotient rounded to MantBits
\* significant bits, ties to even
FloatDiv(a, b) ==
    LET e == Shift(a, b, 0)
        q == (a * Pow2(e)) \div b
        r == (a * Pow2(e)) % b
        up == (2 * r > b) \/ (2 * r = b /\ q % 2 = 1)
    IN  Reduce(IF up THEN q + 1 ELSE q, e)

Factor(consistency, interval) ==
    IF consistency > 0 THEN FloatDiv(consistency, interval) ELSE <<1, 1>>

\* <<-i, -C>> in seconds
Durations == {<<1, 1>>, <<1, 60>>, <<2, 1>>, <<2, 0>>, <<11, 60>>}

(***************************************************************************)
(* The tables.                                                             *)
(***************************************************************************)
Str(s) == [t |-> "string", v |-> s]
Num(t, n) == [t |-> t, v |-> n]

prefixFlag == "host."

Columns(fam) ==
    CASE fam \in {"cpu", "cpus"} ->
           <<"id", "user", "nice", "sys", "idle", "wait", "total">>
      [] fam = "mem" -> <<"free", "used", "actualfree", "actualused", "total">>
      [] fam = "swap" -> <<"free", "used", "total">>
      [] fam = "uptime" -> <<"length">>
      [] fam = "load" -> <<"one", "five", "fifteen">>
      [] fam = "network" ->
           <<"iface", "recv_bytes", "recv_packets", "recv_errs", "recv_drop",
             "recv_fifo", "recv_frame", "recv_compressed", "recv_multicast",
             "trans_bytes", "trans_packets", "trans_errs", "trans_drop",
             "trans_fifo", "trans_colls", "trans_carrier", "trans_compressed">>
      [] fam = "disks" ->
           <<"device", "read_ios", "read_merges", "read_sectors", "read_ticks",
             "write_ios", "write_merges", "write_sectors", "write_ticks",
             "in_flight", "io_ticks", "time_in_queue">>
      [] fam = "mounts" -> <<"mountpoint", "disk", "free", "total">>

\* the type of the numbers a family's sampler puts into its rows
NumType(fam) ==
    CASE fam \in {"network", "disks"} -> "int"
      [] fam \in {"uptime", "load"} -> "float64"
      [] OTHER -> "uint64"

Serie(fam, points) ==
    [nil |-> FALSE, Name |-> prefixFlag \o fam, Columns |-> Columns(fam),
     Points |-> points]

(***************************************************************************)
(* What the samplers read.  A sampled table is n rows of an identifier     *)
(* followed by numbers; the numbers of one sample derive from one reading  *)
(* v, so that different columns hold different values.                     *)
(***************************************************************************)
RowId(fam, r) ==
    CASE fam = "cpu" -> "cpu"
      [] fam = "cpus" -> <<"cpu0", "cpu1", "cpu2", "cpu3">>[r]
      [] fam = "network" -> <<"lo", "eth0", "eth1", "eth2">>[r]
      [] fam = "disks" -> <<"sda", "sda1", "sda2", "sdb">>[r]
      [] fam = "mounts" -> <<"/", "/home", "/boot", "/var">>[r]
      [] OTHER -> ""

\* families whose rows start with an identifier (two of them for mounts)
IdCols(fam) ==
    CASE fam \in {"cpu", "cpus", "network", "disks"} -> 1
      [] fam = "mounts" -> 2
      [] OTHER -> 0

CellAt(fam, r, j, v) ==
    IF j <= IdCols(fam) THEN Str(RowId(fam, r))
    ELSE LET off == j - IdCols(fam) - 1
         IN  Num(NumType(fam), IF v + off > MaxOf(NumType(fam)) THEN v - off ELSE v + off)

Rows(fam, n, ncols, v) ==
    [r \in 1..n |-> [j \in 1..ncols |-> CellAt(fam, r, j, v)]]

(***************************************************************************)
(* DiffFromLast called on its own, once, on tables of at most MaxRows rows *)
(* of at most MaxCols cells.                                               *)
(***************************************************************************)
\* raw values: among them 100 and what a counter growing by 1 per second
\* reads one interval later
TestVals(t) == {0, 100, 100 + daemonIntervalFlag, 150, MaxOf(t)}

TestSeries(fam) ==
    {Serie(fam, Rows(fam, n, c, v)) :
        n \in 0..MaxRows, c \in 0..MaxCols, v \in TestVals(NumType(fam))}

\* the tables of a sample that lacks the first cpu, interface or device: the
\* rows that follow it stand one place higher
MovedSeries(fam) ==
    {Serie(fam, [r \in 1..n |-> [j \in 1..c |-> CellAt(fam, r + 1, j, v)]]) :
        n \in 1..MaxRows, c \in 1..MaxCols, v \in {100}}

\* last_series before the call: empty, or what an earlier call on such a
\* table left there
TestCaches(fam) ==
    {<<>>} \cup {s.Name :> s.Points : s \in TestSeries(fam) \cup MovedSeries(fam)}

\* known: the map had an entry for the name; before: that entry
NoCall ==
    [name |-> "", in |-> <<>>, known |-> FALSE, before |-> <<>>, ret |-> NIL,
     after |-> <<>>]

DiffInit ==
    /\ daemonFlag = FALSE
    /\ fqdnFlag = FALSE
    /\ databaseFlag = ""
    /\ verboseFlag = ""
    /\ collectFlag \in {<<"cpus">>, <<"network">>}
    /\ \E d \in Durations :
          /\ daemonIntervalFlag = d[1]
          /\ daemonConsistencyFlag = d[2]
          /\ consistencyFactor = Factor(d[2], d[1])
    /\ collectList = <<>>
    /\ pc = "diff"
    /\ first = TRUE
    /\ i = 0
    /\ data = <<>>
    /\ ch = <<>>
    /\ last_series \in TestCaches(collectFlag[1])
    /\ task = <<>>
    /\ lap = 0
    /\ emitted = <<>>
    /\ nEmitted = 0
    /\ slept = 0
    /\ sinkErr = FALSE
    /\ call = NoCall
    /\ normalized = {}

DiffCall ==
    /\ pc = "diff"
    /\ pc' = "diffed"
    /\ \E serie \in TestSeries(collectFlag[1]), conv \in FloatConvs :
       LET r == DiffFromLast(serie, last_series, consistencyFactor, conv)
       IN  /\ last_series' = r.last
           /\ call' = [name |-> serie.Name,
                       in |-> serie.Points,
                       known |-> serie.Name \in DOMAIN last_series,
                       before |-> Entry(last_series, serie.Name),
                       ret |-> r.ret,
                       after |-> r.serie.Points]
           /\ UNCHANGED <<daemonFlag, fqdnFlag, databaseFlag, verboseFlag,
                          collectFlag, daemonIntervalFlag, daemonConsistencyFlag,
                          consistencyFactor, collectList, first, i, data,
                          ch, task, lap, emitted, nEmitted, slept, sinkErr,
                          normalized>>

DiffSpec == DiffInit /\ [][DiffCall]_vars

(***************************************************************************)
(* The gather functions.  Each yields the set of ways one run of it can    *)
(* end: "return" (it returns without sending), "nil" (ch <- nil), "diff"   *)
(* (ch <- DiffFromLast(serie)) or "serie" (ch <- serie).                   *)
(***************************************************************************)
\* the reading of the counters and gauges in a lap: they grow from lap to lap
Reading(l) == 100 + 50 * (l - 1)
SampleVals == {Reading(lap)}

Returns == [kind |-> "return", serie |-> NIL]
SendsNil == [kind |-> "nil", serie |-> NIL]
Table(kind, fam, n, v) ==
    [kind |-> kind, serie |-> Serie(fam, Rows(fam, n, Len(Columns(fam)), v))]

cpu == {SendsNil} \cup {Table("diff", "cpu", 1, v) : v \in SampleVals}

cpus == {Table("diff", "cpus", n, v) : n \in 0..MaxRows, v \in SampleVals}

mem == {SendsNil} \cup {Table("serie", "mem", 1, v) : v \in SampleVals}

swap == {SendsNil} \cup {Table("serie", "swap", 1, v) : v \in SampleVals}

uptime == {SendsNil} \cup {Table("serie", "uptime", 1, v) : v \in SampleVals}

load == {SendsNil} \cup {Table("serie", "load", 1, v) : v \in SampleVals}

network ==
    {Returns, SendsNil}
    \cup {Table("diff", "network", n, v) : n \in 0..MaxRows, v \in SampleVals}

disks ==
    {Returns, SendsNil}
    \cup {Table("diff", "disks", n, v) : n \in 0..MaxRows, v \in SampleVals}

mounts ==
    {Returns}
    \cup {Table("serie", "mounts", n, v) : n \in 0..MaxRows, v \in SampleVals}

Families ==
    {"cpu", "cpus", "mem", "swap", "uptime", "load", "network", "disks", "mounts"}

GatherFunc(fam) ==
    CASE fam = "cpu" -> cpu
      [] fam = "cpus" -> cpus
      [] fam = "mem" -> mem
      [] fam = "swap" -> swap
      [] fam = "uptime" -> uptime
      [] fam = "load" -> load
      [] fam = "network" -> network
      [] fam = "disks" -> disks
      [] fam = "mounts" -> mounts

(***************************************************************************)
(* main.                                                                   *)
(***************************************************************************)
\* the options of -c that were read before the first unknown one
RECURSIVE KnownPrefix(_)
KnownPrefix(opts) ==
    IF opts = <<>> \/ Head(opts) \notin Families THEN <<>>
    ELSE <<Head(opts)>> \o KnownPrefix(Tail(opts))

CollectFlags ==
    {<<"cpu">>, <<"network">>, <<"disks">>, <<"cpu", "swap">>,
     <<"cpus", "cpu">>, <<"mounts", "swap">>, <<"cpu", "cpus", "swap">>,
     <<"mem", "bogus">>, <<"bogus", "cpu">>, <<"load", "uptime", "mem">>}

\* <<fqdnFlag, databaseFlag, verboseFlag, <<-i, -C>>>>
Options ==
    {<<FALSE, "", "", <<1, 1>>>>,
     <<TRUE, "sysinfo", "", <<1, 60>>>>,
     <<FALSE, "sysinfo", "text", <<2, 1>>>>,
     <<TRUE, "", "json", <<2, 0>>>>}

Init ==
    /\ daemonFlag \in BOOLEAN
    /\ collectFlag \in CollectFlags
    /\ \E o \in Options :
          /\ fqdnFlag = o[1]
          /\ databaseFlag = o[2]
          /\ verboseFlag = o[3]
          /\ daemonIntervalFlag = o[4][1]
          /\ daemonConsistencyFlag = o[4][2]
    /\ consistencyFactor = <<1, 1>>
    /\ collectList = <<>>
    /\ pc = "start"
    /\ first = TRUE
    /\ i = 0
    /\ data = <<>>
    /\ ch = <<>>
    /\ last_series = <<>>
    /\ task = <<>>
    /\ lap = 0
    /\ emitted = <<>>
    /\ nEmitted = 0
    /\ slept = 0
    /\ sinkErr = FALSE
    /\ call = NoCall
    /\ normalized = {}

flags == <<daemonFlag, fqdnFlag, databaseFlag, verboseFlag, collectFlag,
           daemonIntervalFlag, daemonConsistencyFlag>>

\* Startup with the unknown options of -c skipped
IsKnown(opt) == opt \in Families

StartupSkipUnknown ==
    /\ pc = "start"
    /\ consistencyFactor' = Factor(daemonConsistencyFlag, daemonIntervalFlag)
    /\ collectList' = SelectSeq(collectFlag, IsKnown)
    /\ pc' = "loop"
    /\ UNCHANGED <<flags, first, i, data, ch, last_series, task, lap, emitted,
                   nEmitted, slept, sinkErr, call, normalized>>


\* lines 124-188: the factor, the collect list, the channel
Startup ==
    /\ pc = "start"
    /\ consistencyFactor' = Factor(daemonConsistencyFlag, daemonIntervalFlag)
    /\ collectList' = KnownPrefix(collectFlag)
    /\ pc' = IF Len(KnownPrefix(collectFlag)) = Len(collectFlag)
             THEN "loop" ELSE "exit"
    /\ UNCHANGED <<flags, first, i, data, ch, last_series, task, lap, emitted,
                   nEmitted, slept, sinkErr, call, normalized>>

\* the families whose gather function calls DiffFromLast
Counters == {"cpu", "cpus", "network", "disks"}

\* the laps the model follows: MaxLaps, one more for a single sampler, one
\* fewer for three samplers of which two call DiffFromLast
LapCap ==
    CASE Len(collectList) = 1 -> MaxLaps + 1
      [] /\ Len(collectList) = 3
         /\ Cardinality({k \in 1..3 : collectList[k] \in Counters}) = 2 -> MaxLaps - 1
      [] OTHER -> MaxLaps

\* Launch with the loop test first alone
LaunchWhenFirst ==
    /\ pc = "loop"
    /\ first
    /\ lap < LapCap
    /\ first' = FALSE
    /\ data' = <<>>
    /\ task' = [k \in 1..Len(collectList) |->
                   [pc |-> "run", out |-> "", serie |-> NIL, sent |-> FALSE]]
    /\ i' = Len(collectList)
    /\ lap' = lap + 1
    /\ emitted' = <<>>
    /\ sinkErr' = FALSE
    /\ pc' = "fanin"
    /\ UNCHANGED <<flags, consistencyFactor, collectList, ch, last_series,
                   nEmitted, slept, call, normalized>>

\* lines 193-201: the loop test, then one goroutine per entry of collectList
Launch ==
    /\ pc = "loop"
    /\ first \/ daemonFlag
    /\ lap < LapCap
    /\ first' = FALSE
    /\ data' = <<>>
    /\ task' = [k \in 1..Len(collectList) |->
                   [pc |-> "run", out |-> "", serie |-> NIL, sent |-> FALSE]]
    /\ i' = Len(collectList)
    /\ lap' = lap + 1
    /\ emitted' = <<>>
    /\ sinkErr' = FALSE
    /\ pc' = "fanin"
    /\ UNCHANGED <<flags, consistencyFactor, collectList, ch, last_series,
                   nEmitted, slept, call, normalized>>

\* line 193: the loop ends
Exit ==
    /\ pc = "loop"
    /\ ~(first \/ daemonFlag)
    /\ pc' = "exit"
    /\ UNCHANGED <<flags, consistencyFactor, collectList, first, i, data, ch,
                   last_series, task, lap, emitted, nEmitted, slept, sinkErr,
                   call, normalized>>

\* Receive with first = true on every nil, daemon mode or not
ReceiveRetryAlways ==
    /\ pc = "fanin"
    /\ i > 0
    /\ ch # <<>>
    /\ ch' = Tail(ch)
    /\ data' = IF Head(ch) # NIL THEN Append(data, Head(ch)) ELSE data
    /\ first' = IF Head(ch) = NIL THEN TRUE ELSE first
    /\ i' = i - 1
    /\ UNCHANGED <<flags, consistencyFactor, collectList, pc, last_series,
                   task, lap, emitted, nEmitted, slept, sinkErr, call, normalized>>

\* Receive without the else branch that sets first
ReceiveNoRetry ==
    /\ pc = "fanin"
    /\ i > 0
    /\ ch # <<>>
    /\ ch' = Tail(ch)
    /\ data' = IF Head(ch) # NIL THEN Append(data, Head(ch)) ELSE data
    /\ i' = i - 1
    /\ UNCHANGED <<flags, consistencyFactor, collectList, pc, first,
                   last_series, task, lap, emitted, nEmitted, slept, sinkErr,
                   call, normalized>>

\* lines 203-214: one turn of the receiving loop
Receive ==
    /\ pc = "fanin"
    /\ i > 0
    /\ ch # <<>>
    /\ ch' = Tail(ch)
    /\ data' = IF Head(ch) # NIL THEN Append(data, Head(ch)) ELSE data
    /\ first' = IF Head(ch) = NIL /\ ~daemonFlag THEN TRUE ELSE first
    /\ i' = i - 1
    /\ UNCHANGED <<flags, consistencyFactor, collectList, pc, last_series,
                   task, lap, emitted, nEmitted, slept, sinkErr,
                   call, normalized>>

getFqdn == "host.example.org"

\* AppendFqdn with the column appended and the rows left as they are
AppendFqdnColumnOnly(serie) == [serie EXCEPT !.Columns = Append(@, "fqdn")]

\* lines 217-224
AppendFqdn(serie) ==
    [serie EXCEPT !.Columns = Append(@, "fqdn"),
                  !.Points = [r \in 1..Len(@) |-> Append(@[r], Str(getFqdn))]]

\* Emit with the receiving loop left one result early (i > 1 for i > 0)
EmitEarly ==
    /\ pc = "fanin"
    /\ i <= 1
    /\ pc' = "sleep"
    /\ IF ~first
       THEN LET batch == IF fqdnFlag
                         THEN [n \in 1..Len(data) |-> AppendFqdn(data[n])]
                         ELSE data
            IN  /\ data' = batch
                /\ emitted' = <<[data |-> batch,
                                  shown |-> databaseFlag = "" \/ verboseFlag # "",
                                  sent |-> databaseFlag # ""]>>
                /\ nEmitted' = nEmitted + 1
                /\ IF databaseFlag # "" THEN sinkErr' \in BOOLEAN
                   ELSE sinkErr' = sinkErr
       ELSE UNCHANGED <<data, emitted, nEmitted, sinkErr>>
    /\ UNCHANGED <<flags, consistencyFactor, collectList, first, i, ch,
                   last_series, task, lap, slept, call, normalized>>

\* Emit with an error of send setting first, as a nil result does
EmitRetryOnError ==
    /\ pc = "fanin"
    /\ i = 0
    /\ pc' = "sleep"
    /\ IF ~first
       THEN LET batch == IF fqdnFlag
                         THEN [n \in 1..Len(data) |-> AppendFqdn(data[n])]
                         ELSE data
            IN  /\ data' = batch
                /\ emitted' = <<[data |-> batch,
                                  shown |-> databaseFlag = "" \/ verboseFlag # "",
                                  sent |-> databaseFlag # ""]>>
                /\ nEmitted' = nEmitted + 1
                /\ IF databaseFlag # "" THEN sinkErr' \in BOOLEAN
                   ELSE sinkErr' = sinkErr
                /\ first' = sinkErr'
       ELSE UNCHANGED <<data, emitted, nEmitted, sinkErr, first>>
    /\ UNCHANGED <<flags, consistencyFactor, collectList, i, ch,
                   last_series, task, lap, slept, call, normalized>>


\* lines 216-242: what becomes of data once the receiving loop is over
Emit ==
    /\ pc = "fanin"
    /\ i = 0
    /\ pc' = "sleep"
    /\ IF ~first
       THEN LET batch == IF fqdnFlag
                         THEN [n \in 1..Len(data) |-> AppendFqdn(data[n])]
                         ELSE data
            IN  /\ data' = batch
                /\ emitted' = <<[data |-> batch,
                                  shown |-> databaseFlag = "" \/ verboseFlag # "",
                                  sent |-> databaseFlag # ""]>>
                /\ nEmitted' = nEmitted + 1
                /\ IF databaseFlag # "" THEN sinkErr' \in BOOLEAN
                   ELSE sinkErr' = sinkErr
       ELSE UNCHANGED <<data, emitted, nEmitted, sinkErr>>
    /\ UNCHANGED <<flags, consistencyFactor, collectList, first, i, ch,
                   last_series, task, lap, slept, call, normalized>>

\* Sleep with the condition daemonFlag alone
SleepDaemonOnly ==
    /\ pc = "sleep"
    /\ slept' = IF daemonFlag THEN slept + 1 ELSE slept
    /\ pc' = "loop"
    /\ UNCHANGED <<flags, consistencyFactor, collectList, first, i, data, ch,
                   last_series, task, lap, emitted, nEmitted, sinkErr, call, normalized>>

\* lines 244-246
Sleep ==
    /\ pc = "sleep"
    /\ slept' = IF daemonFlag \/ first THEN slept + 1 ELSE slept
    /\ pc' = "loop"
    /\ UNCHANGED <<flags, consistencyFactor, collectList, first, i, data, ch,
                   last_series, task, lap, emitted, nEmitted, sinkErr, call, normalized>>

(***************************************************************************)
(* The goroutines of a lap.                                                *)
(***************************************************************************)
Running == pc \notin {"exit", "fatal"}

\* Gather with every table handed to DiffFromLast
GatherAllDiffed(k) ==
    /\ Running
    /\ task[k].pc = "run"
    /\ \E o \in GatherFunc(collectList[k]) :
          task' = [task EXCEPT ![k] =
                      [pc |-> CASE o.kind = "return" -> "done"
                                [] o.kind \in {"diff", "serie"} -> "diff"
                                [] OTHER -> "send",
                       out |-> o.kind,
                       serie |-> o.serie,
                       sent |-> FALSE]]
    /\ UNCHANGED <<flags, consistencyFactor, collectList, pc, first, i, data,
                   ch, last_series, lap, emitted, nEmitted, slept, sinkErr,
                   call, normalized>>


\* a gather function up to its send, its call of DiffFromLast or its return
Gather(k) ==
    /\ Running
    /\ task[k].pc = "run"
    /\ \E o \in GatherFunc(collectList[k]) :
          task' = [task EXCEPT ![k] =
                      [pc |-> CASE o.kind = "return" -> "done"
                                [] o.kind = "diff" -> "diff"
                                [] OTHER -> "send",
                       out |-> o.kind,
                       serie |-> o.serie,
                       sent |-> FALSE]]
    /\ UNCHANGED <<flags, consistencyFactor, collectList, pc, first, i, data,
                   ch, last_series, lap, emitted, nEmitted, slept, sinkErr,
                   call, normalized>>

\* Diff with the cache left as it was when the call returns nil
DiffKeepCacheWhenNil(k) ==
    /\ Running
    /\ task[k].pc = "diff"
    /\ \E conv \in FloatConvs :
          LET r == DiffFromLast(task[k].serie, last_series, consistencyFactor,
                                conv)
          IN  /\ last_series' = IF r.ret = NIL THEN last_series ELSE r.last
              /\ task' = [task EXCEPT ![k].pc = "send", ![k].serie = r.ret]
    /\ normalized' = normalized \cup {<<lap, task[k].serie.Name,
                                        Len(task[k].serie.Points)>>}
    /\ UNCHANGED <<flags, consistencyFactor, collectList, pc, first, i, data,
                   ch, lap, emitted, nEmitted, slept, sinkErr,
                   call>>

\* DiffFromLast, from its call to its return
Diff(k) ==
    /\ Running
    /\ task[k].pc = "diff"
    /\ \E conv \in FloatConvs :
          LET r == DiffFromLast(task[k].serie, last_series, consistencyFactor,
                                conv)
          IN  /\ last_series' = r.last
              /\ task' = [task EXCEPT ![k].pc = "send", ![k].serie = r.ret]
    /\ normalized' = normalized \cup {<<lap, task[k].serie.Name,
                                        Len(task[k].serie.Points)>>}
    /\ UNCHANGED <<flags, consistencyFactor, collectList, pc, first, i, data,
                   ch, lap, emitted, nEmitted, slept, sinkErr,
                   call>>

\* ch <- ...: blocks while the buffer is full
Send(k) ==
    /\ Running
    /\ task[k].pc = "send"
    /\ Len(ch) < Len(collectList)
    /\ ch' = Append(ch, task[k].serie)
    /\ task' = [task EXCEPT ![k].pc = "done", ![k].sent = TRUE]
    /\ UNCHANGED <<flags, consistencyFactor, collectList, pc, first, i, data,
                   last_series, lap, emitted, nEmitted, slept, sinkErr,
                   call, normalized>>

\* the call assigns to the map last_series: a new key (line 290) or a new row
\* (line 295); lines 302 and 305 assign to a row of the value, not to the map
WritesMap(serie, last) ==
    IF serie.Name \notin DOMAIN last THEN TRUE
    ELSE Len(serie.Points) > Len(last[serie.Name])

\* Two goroutines are inside DiffFromLast and one of them writes the map: the
\* accesses are not synchronized, and the runtime may end the process ("fatal
\* error: concurrent map writes" or "concurrent map read and map write"; an
\* assignment that is lost makes line 294 or 299 index a row that is not
\* there, which ends the process as well).  When it does not, the calls take
\* effect one after the other, as Diff has them.
MapFault ==
    /\ Running
    /\ \E k, m \in DOMAIN task :
          /\ k # m
          /\ task[k].pc = "diff"
          /\ task[m].pc = "diff"
          /\ WritesMap(task[k].serie, last_series)
    /\ pc' = "fatal"
    /\ UNCHANGED <<flags, consistencyFactor, collectList, first, i, data, ch,
                   last_series, task, lap, emitted, nEmitted, slept, sinkErr,
                   call, normalized>>

\* main waits on an empty channel and no goroutine is left to send: the
\* runtime ends the process ("all goroutines are asleep - deadlock!")
Deadlock ==
    /\ pc = "fanin"
    /\ i > 0
    /\ ch = <<>>
    /\ \A k \in DOMAIN task : task[k].pc = "done"
    /\ pc' = "fatal"
    /\ UNCHANGED <<flags, consistencyFactor, collectList, first, i, data, ch,
                   last_series, task, lap, emitted, nEmitted, slept, sinkErr,
                   call, normalized>>

Next ==
    \/ Startup
    \/ Launch
    \/ Exit
    \/ Receive
    \/ Emit
    \/ Sleep
    \/ \E k \in DOMAIN task : Gather(k)
    \/ \E k \in DOMAIN task : Diff(k)
    \/ \E k \in DOMAIN task : Send(k)
    \/ MapFault
    \/ Deadlock

Spec == Init /\ [][Next]_vars

\* Startup and the launch of the first lap alone, for every -c of at most
\* MaxOpts options: the nine families, an unknown name and the empty string
\* (what strings.Split leaves of "" and after a trailing comma)
Selections ==
    UNION {[1..n -> Families \cup {"bogus", ""}] : n \in 1..MaxOpts}

StartInit ==
    /\ daemonFlag \in BOOLEAN
    /\ collectFlag \in Selections
    /\ fqdnFlag = FALSE
    /\ databaseFlag = ""
    /\ verboseFlag = ""
    /\ daemonIntervalFlag = 1
    /\ daemonConsistencyFlag = 1
    /\ consistencyFactor = <<1, 1>>
    /\ collectList = <<>>
    /\ pc = "start"
    /\ first = TRUE
    /\ i = 0
    /\ data = <<>>
    /\ ch = <<>>
    /\ last_series = <<>>
    /\ task = <<>>
    /\ lap = 0
    /\ emitted = <<>>
    /\ nEmitted = 0
    /\ slept = 0
    /\ sinkErr = FALSE
    /\ call = NoCall
    /\ normalized = {}

StartNext == Startup \/ Launch

StartSpec == StartInit /\ [][StartNext]_vars

\* main is not held up once its receiving loop is over: time.Sleep returns
\* and the loop test is taken
LiveSpec == Init /\ [][Next]_vars /\ WF_vars(Sleep) /\ WF_vars(Launch)

(***************************************************************************)
(* Properties of one DiffFromLast call (DiffSpec).                         *)
(***************************************************************************)
Called == pc = "diffed"

\* the cache held a previous value at (r, j) when the call began
HasBaseline(r, j) ==
    /\ call.known
    /\ r <= Len(call.before)
    /\ j <= Len(call.before[r])

Cells == {<<r, j>> \in (1..MaxRows) \X (1..MaxCols) :
             r <= Len(call.in) /\ j <= Len(call.in[r])}

IntCells == {c \in Cells : call.in[c[1]][c[2]].t \in IntTypes}

\* x * f truncated toward zero, in exact arithmetic
Scaled(x, f) ==
    LET q == (Abs(x) * f[1]) \div f[2] IN IF x < 0 THEN -q ELSE q

\* the difference of the two raw values of cell c, in the cell's type
Delta(c) ==
    LET new == call.in[c[1]][c[2]]
    IN  Wrap(new.t, new.v - call.before[c[1]][c[2]].v)

\* float64 holds Delta(c) and its product with the factor exactly, and the
\* cell's type can represent the truncated product
Representable(c) ==
    LET t == call.in[c[1]][c[2]].t
    IN  /\ RoundMant(Delta(c)) = Delta(c)
        /\ RoundMant(Delta(c) * consistencyFactor[1]) = Delta(c) * consistencyFactor[1]
        /\ Scaled(Delta(c), consistencyFactor) >= MinOf(t)
        /\ Scaled(Delta(c), consistencyFactor) <= MaxOf(t)

\* C2 as stated: every integer cell with a baseline comes back as
\* (new_raw - previous_raw) * consistencyFactor truncated to the cell's type.
C2_AsStated ==
    Called =>
       \A c \in IntCells :
          HasBaseline(c[1], c[2]) =>
             call.after[c[1]][c[2]].v =
                Wrap(call.in[c[1]][c[2]].t, Scaled(Delta(c), consistencyFactor))

\* C2 where float64 is exact: an integer cell with a baseline comes back as
\* the difference of the raw values, taken in the cell's type, times
\* consistencyFactor and truncated toward zero, whenever float64 represents
\* the difference and the product exactly and the cell's type can hold the
\* result.
C2_ScaledDelta ==
    Called =>
       \A c \in IntCells :
          (HasBaseline(c[1], c[2]) /\ Representable(c)) =>
             /\ call.after[c[1]][c[2]].v = Scaled(Delta(c), consistencyFactor)
             /\ call.after[c[1]][c[2]].t = call.in[c[1]][c[2]].t

\* raw 100, then 150, with factor 60: the cell comes back as 3000
C2_Witness ==
    /\ Called
    /\ consistencyFactor = <<60, 1>>
    /\ \E c \in IntCells :
          /\ HasBaseline(c[1], c[2])
          /\ call.before[c[1]][c[2]].v = 100
          /\ call.in[c[1]][c[2]].v = 150
          /\ call.after[c[1]][c[2]].v = 3000

\* C3 as stated: DiffFromLast returns nil exactly when some cell of the table
\* had no previous value, which includes every first call for a table name.
C3_AsStated ==
    Called =>
       /\ (call.ret = NIL) <=> (\E c \in Cells : ~HasBaseline(c[1], c[2]))
       /\ ~call.known => call.ret = NIL

\* C3, amended: DiffFromLast returns nil exactly when some cell of the table
\* had no previous value (a first call for a name is such a call when the table
\* has a cell); otherwise it returns the table it was given, diffed.
C3_IncompleteIff ==
    Called =>
       /\ (call.ret = NIL) <=> (\E c \in Cells : ~HasBaseline(c[1], c[2]))
       /\ call.ret # NIL =>
             /\ call.ret.Name = call.name
             /\ call.ret.Points = call.after
             /\ Len(call.after) = Len(call.in)
             /\ \A r \in 1..Len(call.in) : Len(call.after[r]) = Len(call.in[r])

\* a second row appears next to a row that has its baseline: nil
C3_Witness ==
    /\ Called
    /\ call.known
    /\ Len(call.before) = 1
    /\ Len(call.in) = 2
    /\ Len(call.in[1]) = 2
    /\ HasBaseline(1, 2)
    /\ ~HasBaseline(2, 1)
    /\ call.ret = NIL

\* C10 as stated: a cell without a previous value holds its raw value after
\* the call, integer or not.
C10_AsStated ==
    Called =>
       \A c \in Cells :
          ~HasBaseline(c[1], c[2]) =>
             call.after[c[1]][c[2]] = call.in[c[1]][c[2]]

\* C10, amended: after the call a cell without a previous value holds its raw
\* value when it is not an integer, and 0 (the difference from itself) when it
\* is an integer.
C10_FirstObservation ==
    Called =>
       \A c \in Cells :
          ~HasBaseline(c[1], c[2]) =>
             call.after[c[1]][c[2]] =
                IF c \in IntCells
                THEN [t |-> call.in[c[1]][c[2]].t, v |-> 0]
                ELSE call.in[c[1]][c[2]]

\* an integer cell seen for the first time with raw value 100 is left at 0
C10_Witness ==
    /\ Called
    /\ \E c \in IntCells :
          /\ ~HasBaseline(c[1], c[2])
          /\ call.in[c[1]][c[2]].v = 100
          /\ call.after[c[1]][c[2]].v = 0

\* C11: after a DiffFromLast call, nil returned or not, the cache entry of the
\* table's name holds at every position of the table the raw value the table
\* had there when the call began, and what it held elsewhere is unchanged.
C11_CacheHoldsRaw ==
    Called =>
       /\ call.name \in DOMAIN last_series
       /\ Len(last_series[call.name]) >= Len(call.in)
       /\ \A c \in Cells :
             /\ Len(last_series[call.name][c[1]]) >= c[2]
             /\ last_series[call.name][c[1]][c[2]] = call.in[c[1]][c[2]]
       /\ \A r \in 1..Len(call.before) :
             /\ Len(last_series[call.name]) >= r
             /\ \A j \in 1..Len(call.before[r]) :
                   /\ Len(last_series[call.name][r]) >= j
                   /\ <<r, j>> \notin Cells =>
                         last_series[call.name][r][j] = call.before[r][j]

\* a call that returns the table with a cell diffed from 100 and 150 to 50:
\* the cache holds 150
C11_Witness ==
    /\ Called
    /\ call.ret # NIL
    /\ \E c \in IntCells :
          /\ call.before[c[1]][c[2]].v = 100
          /\ call.in[c[1]][c[2]].v = 150
          /\ call.after[c[1]][c[2]].v = 50
          /\ last_series[call.name][c[1]][c[2]].v = 150

\* the growth of cell c between the cached reading and the new one
Growth(c) == call.in[c[1]][c[2]].v - call.before[c[1]][c[2]].v

\* C15: with a consistency window, an integer counter that grew by r per
\* second over one sampling interval is reported as r times the window,
\* whatever the interval, whenever the cell's type can hold that product;
\* without a window the factor is 1 and the growth itself is reported.
\* Stated for the growths that float64 represents exactly.
C15_AsStated ==
    Called =>
       \A c \in IntCells :
          (/\ HasBaseline(c[1], c[2])
           /\ Growth(c) >= 0
           /\ Growth(c) < MantLimit
           /\ Growth(c) % daemonIntervalFlag = 0) =>
             LET r == Growth(c) \div daemonIntervalFlag
             IN  IF daemonConsistencyFlag > 0
                 THEN r * daemonConsistencyFlag <= MaxOf(call.in[c[1]][c[2]].t) =>
                         call.after[c[1]][c[2]].v = r * daemonConsistencyFlag
                 ELSE call.after[c[1]][c[2]].v = Growth(c)

\* the cells of the table that are no integers: the identifiers
IdCells == Cells \ IntCells

\* C21: after a DiffFromLast call, every cell of the table that is no integer
\* is the value the table had there when the call began, in the table the
\* call returns as well; the cache holds that value; and the call returns nil
\* when the cache had no previous value for such a cell.
C21_IdentifiersPassThrough ==
    Called =>
       \A c \in IdCells :
          /\ call.after[c[1]][c[2]] = call.in[c[1]][c[2]]
          /\ call.ret # NIL => call.ret.Points[c[1]][c[2]] = call.in[c[1]][c[2]]
          /\ last_series[call.name][c[1]][c[2]] = call.in[c[1]][c[2]]
          /\ ~HasBaseline(c[1], c[2]) => call.ret = NIL

\* a call that returns the table, whose first row names another interface,
\* cpu or device than the cached row did
C21_Witness ==
    /\ Called
    /\ call.ret # NIL
    /\ \E c \in IdCells :
          /\ HasBaseline(c[1], c[2])
          /\ call.before[c[1]][c[2]] # call.in[c[1]][c[2]]
          /\ call.ret.Points[c[1]][c[2]] = call.in[c[1]][c[2]]
          /\ last_series[call.name][c[1]][c[2]] = call.in[c[1]][c[2]]

(***************************************************************************)
(* Properties of the laps (Spec).                                          *)
(***************************************************************************)
N == Len(collectList)

\* the receiving loop of the lap is over
LapOver == pc = "sleep"

\* the goroutines whose gather function signalled failure, and those that
\* came to an end with a table (diffed or not)
Failed == {k \in DOMAIN task : task[k].out = "nil"}
Succeeded == {k \in DOMAIN task : task[k].out \in {"diff", "serie"}}

\* the goroutines that sent a table, not nil
SentTable == {k \in DOMAIN task : task[k].sent /\ task[k].serie # NIL}

\* a lap is incomplete when a nil was received
Incomplete == Len(data) < N

\* the table of goroutine k as the batch holds it
InBatch(k) == IF fqdnFlag THEN AppendFqdn(task[k].serie) ELSE task[k].serie

\* batch, handed over, holds the tables the goroutines sent and nothing else
HoldsSentTables(batch) ==
    /\ Len(batch) = Cardinality(SentTable)
    /\ \A k \in SentTable : \E n \in 1..Len(batch) : batch[n] = InBatch(k)

\* data, as received, holds the tables the goroutines sent and nothing else
ReceivedSentTables ==
    /\ Len(data) = Cardinality(SentTable)
    /\ \A k \in SentTable :
          \E n \in 1..Len(data) :
             data[n] = IF emitted # <<>> THEN InBatch(k) ELSE task[k].serie

\* C1: every gather function that has come to its end has put one result on
\* the channel, so the receiving loop gets its N results.
C1_OneResultEach ==
    \A k \in DOMAIN task : task[k].pc = "done" => task[k].sent

\* C4: no two goroutines are inside DiffFromLast at the same time.
C4_MutualExclusion ==
    Cardinality({k \in DOMAIN task : task[k].pc = "diff"}) <= 1

\* C5 as stated: without -D, no time.Sleep runs between an incomplete lap and
\* the lap that follows it.
C5_AsStated ==
    [][(LapOver /\ ~daemonFlag /\ Incomplete) => slept' = slept]_vars

\* C5, amended: without -D, an incomplete lap is followed by one time.Sleep of
\* the interval and then by the next lap; a complete lap is followed by no
\* sleep.
C5_SleepThenRetry ==
    [][/\ (LapOver /\ ~daemonFlag /\ Incomplete) =>
             (slept' = slept + 1 /\ pc' = "loop" /\ first')
       /\ (LapOver /\ ~daemonFlag /\ ~Incomplete) =>
             (slept' = slept /\ pc' = "loop" /\ ~first')
       /\ (pc = "loop" /\ ~daemonFlag /\ first /\ pc' # pc) =>
             (pc' = "fanin" /\ lap' = lap + 1 /\ slept' = slept)]_vars

\* without -D, a second lap is running after one sleep
C5_Witness ==
    /\ ~daemonFlag
    /\ pc = "fanin"
    /\ lap = 2
    /\ slept = 1

\* C6 as stated: with -D, an incomplete lap hands nothing to the display or to
\* send.
C6_AsStated ==
    (LapOver /\ daemonFlag /\ Incomplete) => emitted = <<>>

\* C6, amended: with -D, every lap hands one batch to the display or to send,
\* complete or not; the batch of an incomplete lap holds the tables that were
\* sent, and none for a sampler that failed or a table that DiffFromLast
\* found incomplete.
C6_DaemonEmitsReceived ==
    (LapOver /\ daemonFlag) =>
       /\ Len(emitted) = 1
       /\ emitted[1].shown \/ emitted[1].sent
       /\ emitted[1].data = data
       /\ HoldsSentTables(data)

\* with -D, a lap with a nil result has handed over a batch of one table
C6_Witness ==
    /\ LapOver
    /\ daemonFlag
    /\ N = 2
    /\ Incomplete
    /\ Len(emitted) = 1
    /\ Len(emitted[1].data) = 1

\* C7: without -D, a batch is handed over only when the lap received N
\* tables: one from each goroutine, none of them nil, in whatever order they
\* arrived.
C7_CompleteBatchOnly ==
    (~daemonFlag /\ emitted # <<>>) =>
       /\ Len(emitted) = 1
       /\ Len(emitted[1].data) = N
       /\ \A k \in DOMAIN task : task[k].sent /\ task[k].serie # NIL
       /\ HoldsSentTables(emitted[1].data)

\* without -D, a batch of two tables that arrived in the other order
C7_Witness ==
    /\ ~daemonFlag
    /\ N = 2
    /\ emitted # <<>>
    /\ Len(emitted[1].data) = 2
    /\ emitted[1].data[1] = InBatch(2)
    /\ emitted[1].data[1] # InBatch(1)

\* some family of collectList goes through DiffFromLast
HasCounter == \E k \in 1..N : collectList[k] \in Counters

\* C8, the part of it a single lap decides: without -D, while every sampler
\* of the first lap has succeeded, the process is not ended by the runtime;
\* and when main returns after one lap, it has handed over one batch and
\* no family of the lap is counter-based.
C8_AsStated ==
    (~daemonFlag /\ lap = 1 /\ Failed = {} /\
       (\A k \in DOMAIN task : task[k].out # "return")) =>
          /\ pc # "fatal"
          /\ pc = "exit" => (nEmitted = 1 /\ ~HasCounter)

\* one sampler of the lap has signalled failure, the others have their table
OneFailed == Cardinality(Failed) = 1 /\ Cardinality(Succeeded) = N - 1

\* what holds of such a lap when its receiving loop is over: the other
\* goroutines have all sent, data holds the tables they sent and none from
\* the sampler that failed; without -D, first is set and nothing is handed
\* over; with -D, data is handed over
FailureIsLocal ==
    (LapOver /\ OneFailed) =>
       /\ \A k \in Succeeded : task[k].pc = "done" /\ task[k].sent
       /\ \A k \in Failed : k \notin SentTable
       /\ ReceivedSentTables
       /\ Len(data) <= N - 1
       /\ ~daemonFlag => (first /\ emitted = <<>>)
       /\ daemonFlag => (Len(emitted) = 1 /\ emitted[1].data = data)

\* C9: when one sampler signals failure and the others succeed, the others
\* are not aborted: the process does not end before each of them has
\* delivered its result, and when the receiving loop is over the data of the
\* lap holds their complete tables and none from the sampler that failed
\* (without -D, another lap follows).
C9_AsStated ==
    /\ FailureIsLocal
    /\ (OneFailed /\ pc = "fatal") => \A k \in Succeeded : task[k].sent

\* the families whose gather function sends its table as it is
NonCounters == Families \ Counters

\* the tables a family's gather function can build in the current lap
RawTables(fam) == {o.serie : o \in GatherFunc(fam) \ {Returns, SendsNil}}

\* C12: the tables of mem, swap, uptime, load and mounts do not go through
\* DiffFromLast: the goroutine holds and sends the table its gather function
\* built in this lap, never nil in place of it; a batch handed over holds
\* that table (with the fqdn column when -f is set); last_series has no
\* entry for these families.
C12_NonCountersPassThrough ==
    /\ \A k \in DOMAIN task :
          collectList[k] \in NonCounters =>
             /\ task[k].pc # "diff"
             /\ task[k].out = "serie" =>
                   task[k].serie \in RawTables(collectList[k])
             /\ emitted # <<>> /\ task[k].out = "serie" =>
                   \E n \in 1..Len(emitted[1].data) :
                      emitted[1].data[n] = InBatch(k)
    /\ \A fam \in NonCounters : prefixFlag \o fam \notin DOMAIN last_series

\* second lap of cpu and swap: the batch holds swap's reading of this lap,
\* 150, and the cache holds cpu alone
C12_Witness ==
    /\ collectList = <<"cpu", "swap">>
    /\ lap = 2
    /\ emitted # <<>>
    /\ Len(emitted[1].data) = 2
    /\ \E n \in 1..2 :
          /\ emitted[1].data[n].Name = prefixFlag \o "swap"
          /\ emitted[1].data[n].Points[1][1] = Num("uint64", 150)
    /\ DOMAIN last_series = {prefixFlag \o "cpu"}

\* the step changes the cache entry of name
EntryChanged(name) ==
    \/ (name \in DOMAIN last_series) # (name \in DOMAIN last_series')
    \/ /\ name \in DOMAIN last_series
       /\ name \in DOMAIN last_series'
       /\ last_series'[name] # last_series[name]

Names == {prefixFlag \o fam : fam \in Families}

\* a step changes a cache entry only as the DiffFromLast call of a goroutine
\* whose table has that name, and leaves it as that call alone leaves it
DiffFrameStep ==
    \A name \in Names :
       EntryChanged(name) =>
          \E k \in DOMAIN task, conv \in FloatConvs :
             /\ task[k].pc = "diff"
             /\ task[k].serie.Name = name
             /\ task'[k].pc = "send"
             /\ last_series'[name] =
                   DiffFromLast(task[k].serie, last_series,
                                consistencyFactor, conv).last[name]

DiffFrame == [][DiffFrameStep]_vars

\* C13: in every interleaving of the goroutines of a lap a DiffFromLast call
\* on a table changes the cache entry of that table's name alone, and what
\* becomes of a goroutine inside DiffFromLast does not depend on the other
\* goroutines: no step ends the process while one is inside the call.
C13_AsStated ==
    [][/\ DiffFrameStep
       /\ (pc' = "fatal" /\ pc # "fatal") =>
             \A k \in DOMAIN task : task[k].pc # "diff"]_vars

\* C14: an error returned by send changes neither the cache nor first; the
\* lap is not run again because of it: with -D the interval sleep and the
\* next lap follow as after any lap, without -D main returns.
C14_SendErrorOnlyReported ==
    [][/\ (sinkErr' /\ ~sinkErr) =>
             /\ pc = "fanin" /\ pc' = "sleep"
             /\ emitted' # <<>> /\ emitted'[1].sent
             /\ ~first /\ ~first'
             /\ last_series' = last_series
       /\ (sinkErr /\ pc = "sleep") =>
             /\ pc' = "loop"
             /\ ~first'
             /\ last_series' = last_series
             /\ slept' = IF daemonFlag THEN slept + 1 ELSE slept
       /\ (sinkErr /\ pc = "loop") =>
             /\ daemonFlag /\ lap < LapCap => ENABLED Launch
             /\ ~daemonFlag => ENABLED Exit
             /\ pc' # pc =>
                   IF daemonFlag
                   THEN pc' = "fanin" /\ lap' = lap + 1 /\ ~sinkErr'
                   ELSE pc' = "exit" /\ nEmitted' = nEmitted]_vars

\* without -D, main has returned after a lap whose send returned an error
C14_Witness ==
    /\ ~daemonFlag
    /\ pc = "exit"
    /\ sinkErr
    /\ nEmitted = 1
    /\ slept = lap - 1

\* C16: every table handed over has the columns of its family, followed by
\* the column fqdn when -f is set, and every row of it has as many values as
\* the table has columns, the last being the fqdn when -f is set; the rows
\* of the cache keep the width of the family's columns and hold no fqdn.
C16_RowsMatchColumns ==
    /\ emitted # <<>> =>
          \A n \in 1..Len(emitted[1].data) :
             LET t == emitted[1].data[n]
             IN  /\ \E fam \in Families :
                       /\ t.Name = prefixFlag \o fam
                       /\ t.Columns = IF fqdnFlag
                                      THEN Append(Columns(fam), "fqdn")
                                      ELSE Columns(fam)
                 /\ \A r \in 1..Len(t.Points) :
                       /\ Len(t.Points[r]) = Len(t.Columns)
                       /\ fqdnFlag =>
                             t.Points[r][Len(t.Columns)] = Str(getFqdn)
    /\ \A fam \in Families :
          prefixFlag \o fam \in DOMAIN last_series =>
             \A r \in 1..Len(last_series[prefixFlag \o fam]) :
                /\ Len(last_series[prefixFlag \o fam][r]) = Len(Columns(fam))
                /\ \A j \in 1..Len(Columns(fam)) :
                      last_series[prefixFlag \o fam][r][j] # Str(getFqdn)

\* with -f, a diffed cpus table of two rows is handed over: eight columns,
\* eight values in each row, seven in each row of the cache
C16_Witness ==
    /\ fqdnFlag
    /\ emitted # <<>>
    /\ \E n \in 1..Len(emitted[1].data) :
          /\ emitted[1].data[n].Name = prefixFlag \o "cpus"
          /\ Len(emitted[1].data[n].Columns) = 8
          /\ Len(emitted[1].data[n].Points) = 2
          /\ Len(emitted[1].data[n].Points[2]) = 8
          /\ emitted[1].data[n].Points[2][7].v = 50
    /\ Len(last_series[prefixFlag \o "cpus"][2]) = 7

\* the goroutines of the current lap that have sent their result
Senders == {k \in DOMAIN task : task[k].sent}

\* C17: the results received in a lap and those waiting in the channel are
\* the ones the goroutines of that lap sent; the channel never holds more
\* than N of them, so that no send blocks; main leaves the receiving loop
\* only when it has received N results, and then, and when the next lap
\* starts, the channel is empty and every goroutine of the lap is done.
C17_LapBarrier ==
    /\ Len(ch) <= N
    /\ \A k \in DOMAIN task : task[k].pc = "send" => Len(ch) < N
    /\ pc = "fanin" => (N - i) + Len(ch) = Cardinality(Senders)
    /\ pc \in {"sleep", "loop", "exit"} =>
          /\ ch = <<>>
          /\ i = 0
          /\ lap > 0 => Cardinality(Senders) = N
          /\ \A k \in DOMAIN task : task[k].pc = "done"
    /\ (pc = "fanin" /\ i = N) => (ch = <<>> \/ Senders # {})

\* second lap of three samplers: all three results wait in the channel
\* before main has received any
C17_Witness ==
    /\ pc = "fanin"
    /\ lap = 2
    /\ N = 3
    /\ i = 3
    /\ Len(ch) = 3

\* C18: with -D, main does not return once the laps have begun; a lap whose
\* receiving loop is over is followed by one time.Sleep and then by the next
\* lap (as far as the model follows the laps), whether it was complete or
\* not.
C18_DaemonLoops ==
    /\ [](daemonFlag =>
            /\ lap > 0 => pc # "exit"
            /\ pc \in {"fanin", "sleep"} => slept = lap - 1
            /\ pc = "loop" => slept = lap)
    /\ \A l \in 1..MaxLaps :
          (daemonFlag /\ pc = "sleep" /\ lap = l /\ l < LapCap)
             ~> (pc = "fanin" /\ lap = l + 1 /\ slept = l)

\* with -D, the second lap of cpu has begun after a first lap in which cpu
\* failed, and one sleep
C18_Witness ==
    /\ daemonFlag
    /\ collectList = <<"cpu">>
    /\ pc = "fanin"
    /\ lap = 2
    /\ slept = 1
    /\ nEmitted = 1
    /\ last_series = <<>>

\* the table name of the goroutine k of the lap
NameOf(k) == prefixFlag \o collectList[k]

\* C19: the goroutines launched in a lap have pairwise distinct table names.
C19_DistinctNames ==
    pc = "fanin" =>
       \A k, m \in DOMAIN task : k # m => NameOf(k) # NameOf(m)

\* C20: when an option of -c is not one of the nine families, main returns
\* while building the collect list, whatever precedes the option: no lap
\* begins, no goroutine is started, nothing is sent on the channel, the cache
\* stays empty and nothing is handed to the display or to send.
C20_UnknownStops ==
    (\E k \in DOMAIN collectFlag : collectFlag[k] \notin Families) =>
       /\ pc \in {"start", "exit"}
       /\ lap = 0
       /\ task = <<>>
       /\ ch = <<>>
       /\ last_series = <<>>
       /\ emitted = <<>>
       /\ nEmitted = 0
       /\ slept = 0

\* -D -c mem,bogus: main has returned with mem alone in the collect list
C20_Witness ==
    /\ daemonFlag
    /\ collectFlag = <<"mem", "bogus">>
    /\ collectList = <<"mem">>
    /\ pc = "exit"

\* the family of a table name
FamOf(name) == CHOOSE fam \in Families : prefixFlag \o fam = name

\* the laps up to lap l in which DiffFromLast was called on a table of that name
TableLaps(name, l) ==
    {e[1] : e \in {x \in normalized : x[2] = name /\ x[1] <= l}}

\* those of them in which the table had a row r
RowLaps(name, r, l) ==
    {e[1] : e \in {x \in normalized : x[2] = name /\ x[1] <= l /\ x[3] >= r}}

Latest(laps) == CHOOSE l \in laps : \A m \in laps : m <= l

\* the goroutines of the lap whose DiffFromLast call has returned their table
Diffed == {k \in DOMAIN task : /\ task[k].out = "diff"
                                /\ task[k].pc \in {"send", "done"}
                                /\ task[k].serie # NIL}

\* cell is what the type switch makes of the reading of this lap at (r, j)
\* and of the reading of lap l there
DeltaSince(cell, fam, r, j, l) ==
    \E conv \in FloatConvs :
       cell = Switch(CellAt(fam, r, j, Reading(lap)),
                     CellAt(fam, r, j, Reading(l)), consistencyFactor, conv)

\* C22 as stated: the cache holds at every cell the reading of the most
\* recent lap in which DiffFromLast was called on a table of that name, and
\* every cell of a table it returns is the delta from the reading of the most
\* recent earlier such lap, whether or not the batches of those laps were
\* emitted and whatever the samplers did in the laps between.
C22_AsStated ==
    /\ \A name \in DOMAIN last_series :
          \A r \in 1..Len(last_series[name]) :
             \A j \in 1..Len(last_series[name][r]) :
                /\ TableLaps(name, lap) # {}
                /\ last_series[name][r][j] =
                      CellAt(FamOf(name), r, j,
                             Reading(Latest(TableLaps(name, lap))))
    /\ \A k \in Diffed :
          \A r \in 1..Len(task[k].serie.Points) :
             \A j \in 1..Len(task[k].serie.Points[r]) :
                /\ TableLaps(NameOf(k), lap - 1) # {}
                /\ DeltaSince(task[k].serie.Points[r][j], collectList[k], r, j,
                              Latest(TableLaps(NameOf(k), lap - 1)))

\* C22, per row: DiffFromLast has been called in a lap on a table with n rows
\* exactly when the cache has an entry of at least n rows for it; the cache
\* holds at every cell the reading of the most recent lap in which
\* DiffFromLast was called on a table of that name that had the cell's row,
\* and every cell of a table it returns is the delta from the reading of the
\* most recent earlier such lap, whether or not the batches of those laps
\* were emitted and whatever the samplers did in the laps between.
C22_BaselinePerRow ==
    /\ \A e \in normalized :
          /\ e[2] \in DOMAIN last_series
          /\ Len(last_series[e[2]]) >= e[3]
    /\ \A name \in DOMAIN last_series :
          \A r \in 1..Len(last_series[name]) :
             \A j \in 1..Len(last_series[name][r]) :
                /\ RowLaps(name, r, lap) # {}
                /\ last_series[name][r][j] =
                      CellAt(FamOf(name), r, j,
                             Reading(Latest(RowLaps(name, r, lap))))
    /\ \A k \in Diffed :
          \A r \in 1..Len(task[k].serie.Points) :
             \A j \in 1..Len(task[k].serie.Points[r]) :
                /\ RowLaps(NameOf(k), r, lap - 1) # {}
                /\ DeltaSince(task[k].serie.Points[r][j], collectList[k], r, j,
                              Latest(RowLaps(NameOf(k), r, lap - 1)))

\* without -D and with a factor of 1: the first lap of cpu was incomplete and
\* retried, cpu failed in the second, and the table of the third lap, which
\* DiffFromLast returns, holds the growth over the two intervals; nothing
\* was emitted so far
C22_Witness ==
    /\ ~daemonFlag
    /\ consistencyFactor = <<1, 1>>
    /\ collectList = <<"cpu">>
    /\ lap = 3
    /\ nEmitted = 0
    /\ normalized = {<<1, "host.cpu", 1>>, <<3, "host.cpu", 1>>}
    /\ 1 \in Diffed
    /\ task[1].serie.Points[1][2].v = Reading(3) - Reading(1)

\* the goroutines whose DiffFromLast call returns in the step
Returning == {k \in DOMAIN task : task[k].pc = "diff" /\ task'[k].pc = "send"}

\* what a step leaves of the cache entry of name: its rows and their cells
\* are still there, and a row that the table of the call does not have, or
\* any row when the step is no call on a table of that name, is as it was
CacheKept(name) ==
    /\ name \in DOMAIN last_series'
    /\ Len(last_series'[name]) >= Len(last_series[name])
    /\ \A r \in 1..Len(last_series[name]) :
          /\ Len(last_series'[name][r]) >= Len(last_series[name][r])
          /\ (\A k \in Returning : task[k].serie.Name = name =>
                                      r > Len(task[k].serie.Points))
                => last_series'[name][r] = last_series[name][r]

\* the goroutines of the lap whose DiffFromLast call has returned, nil or not
Normalized == {k \in DOMAIN task : task[k].out = "diff" /\ task[k].pc \in {"send", "done"}}

\* the number of rows of the table of goroutine k in this lap
RowsOf(k) == (CHOOSE e \in normalized : e[1] = lap /\ e[2] = NameOf(k))[3]

\* row r of name was in the table of an earlier lap, not in that of the most
\* recent earlier lap in which DiffFromLast was called on the name
Stale(name, r) ==
    /\ RowLaps(name, r, lap - 1) # {}
    /\ Latest(RowLaps(name, r, lap - 1)) < Latest(TableLaps(name, lap - 1))

\* C23: no step takes a table name, a row or a cell out of the cache, and a
\* DiffFromLast call leaves the rows beyond its table as they were; so a call
\* on a table all of whose rows were in the table of some earlier lap returns
\* the table, not nil, even when a row was absent from the table in between,
\* and such a row holds the delta from its reading in the lap that last had it.
C23_CacheOnlyGrows ==
    /\ [][\A name \in DOMAIN last_series : CacheKept(name)]_vars
    /\ [](\A k \in Normalized :
            /\ (\A r \in 1..RowsOf(k) : RowLaps(NameOf(k), r, lap - 1) # {})
                  => task[k].serie # NIL
            /\ task[k].serie # NIL =>
                  \A r \in 1..Len(task[k].serie.Points) :
                     Stale(NameOf(k), r) =>
                        \A j \in 1..Len(task[k].serie.Points[r]) :
                           DeltaSince(task[k].serie.Points[r][j], collectList[k],
                                      r, j, Latest(RowLaps(NameOf(k), r, lap - 1))))

\* with -D and a factor of 1: /proc/net/dev listed two interfaces in the
\* first lap, one in the second and two in the third; DiffFromLast returns
\* the table of the third lap, whose second row holds the growth since the
\* first lap, and the first row the growth since the second
C23_Witness ==
    /\ daemonFlag
    /\ consistencyFactor = <<1, 1>>
    /\ collectList = <<"network">>
    /\ lap = 3
    /\ normalized = {<<1, "host.network", 2>>, <<2, "host.network", 1>>,
                     <<3, "host.network", 2>>}
    /\ 1 \in Normalized
    /\ task[1].serie # NIL
    /\ Stale("host.network", 2)
    /\ task[1].serie.Points[2][2].v = Reading(3) - Reading(1)
    /\ task[1].serie.Points[1][2].v = Reading(3) - Reading(2)
    /\ Len(last_series["host.network"]) = 2

====
